---------------------------- MODULE Spec2Model ----------------------------

(***************************************************************************)
(* Model of TFunction.py, the "Modular Function Transformer" page.         *)
(*                                                                         *)
(* The page is a script that is run from top to bottom on every user       *)
(* interaction.  It parses the function text (sympy), builds the           *)
(* transformed expression from six optional transformations, samples the   *)
(* base and the transformed expression on a grid (numpy float64), chooses  *)
(* the y-range of the chart, and shows the "guess the transformation"      *)
(* challenge, whose record lives in st.session_state.                      *)
(*                                                                         *)
(* Numbers are floating-point numbers of a reduced binary format: a        *)
(* finite number is an integer count of the quantum 2^-FracBits that has   *)
(* at most Precision significant bits; results are rounded to nearest,     *)
(* ties to even, and overflow to infinity, as numpy's float64 does with    *)
(* 53 bits.                                                                *)
(***************************************************************************)
EXTENDS Integers, Sequences, FiniteSets, TLC

(***************************************************************************)
(* Floating point                                                          *)
(***************************************************************************)
FracBits == 7
Precision == 4
MaxExponent == 11

RECURSIVE Pow2(_)
Pow2(n) == IF n = 0 THEN 1 ELSE 2 * Pow2(n - 1)

Unit == Pow2(FracBits)
MantissaLimit == Pow2(Precision)
MaxFinite == (Pow2(Precision) - 1) * Pow2(MaxExponent)
ProductLimit == 2 * MaxFinite * Unit

Abs(n) == IF n < 0 THEN -n ELSE n
Sign(n) == IF n < 0 THEN -1 ELSE 1

NaN == <<"nan", 0>>
PInf == <<"inf", 1>>
NInf == <<"inf", -1>>
Fin(n) == <<"fin", n>>
Inf(s) == <<"inf", s>>

IsNaN(v) == v[1] = "nan"
IsInf(v) == v[1] = "inf"
IsFinite(v) == v[1] = "fin"

\* The quantum of the binade of mag / den: the least power of two s with
\* mag / (den * s) < 2^Precision.
RECURSIVE Quantum(_, _, _)
Quantum(mag, den, s) ==
    IF mag \div (den * s) < MantissaLimit THEN s ELSE Quantum(mag, den, 2 * s)

\* mag / den (den > 0, s the quantum of mag / den) rounded to a multiple
\* of s, to nearest, ties to even.
RoundTo(mag, den, s) ==
    IF 2 * (mag % (den * s)) > den * s
        \/ (2 * (mag % (den * s)) = den * s /\ (mag \div (den * s)) % 2 = 1)
    THEN (mag \div (den * s) + 1) * s
    ELSE (mag \div (den * s)) * s

\* A magnitude beyond the largest finite number is an infinity.
Signed(sgn, mag) == IF mag > MaxFinite THEN Inf(sgn) ELSE Fin(sgn * mag)

\* num / den (in quanta, den > 0) as a floating-point number.
Round(num, den) ==
    Signed(Sign(num), RoundTo(Abs(num), den, Quantum(Abs(num), den, 1)))

FromInt(n) == Round(n * Unit, 1)
Zero == Fin(0)
One == FromInt(1)
Two == FromInt(2)
\* The double nearest to the decimal literal 0.1.
Tenth == Round(Unit, 10)
Half == Round(Unit, 2)

FNeg(v) ==
    IF IsNaN(v) THEN NaN
    ELSE IF IsInf(v) THEN Inf(-v[2])
    ELSE Fin(-v[2])

FAdd(v, w) ==
    IF IsNaN(v) \/ IsNaN(w) THEN NaN
    ELSE IF IsInf(v) /\ IsInf(w) THEN (IF v[2] = w[2] THEN v ELSE NaN)
    ELSE IF IsInf(v) THEN v
    ELSE IF IsInf(w) THEN w
    ELSE Round(v[2] + w[2], 1)

FSub(v, w) == FAdd(v, FNeg(w))

FMul(v, w) ==
    IF IsNaN(v) \/ IsNaN(w) THEN NaN
    ELSE IF IsInf(v) \/ IsInf(w)
         THEN (IF v[2] = 0 \/ w[2] = 0 THEN NaN ELSE Inf(Sign(v[2]) * Sign(w[2])))
    ELSE IF v[2] = 0 \/ w[2] = 0 THEN Zero
    ELSE IF Abs(v[2]) > ProductLimit \div Abs(w[2])
         THEN Inf(Sign(v[2]) * Sign(w[2]))
    ELSE Round(v[2] * w[2], Unit)

FDiv(v, w) ==
    IF IsNaN(v) \/ IsNaN(w) THEN NaN
    ELSE IF IsInf(v) THEN (IF IsInf(w) THEN NaN ELSE Inf(v[2] * Sign(w[2])))
    ELSE IF IsInf(w) THEN Zero
    ELSE IF w[2] = 0 THEN (IF v[2] = 0 THEN NaN ELSE Inf(Sign(v[2])))
    ELSE Round(Sign(w[2]) * v[2] * Unit, Abs(w[2]))

\* v < w for numbers that are not NaN.
FLess(v, w) ==
    IF IsInf(v) THEN (v[2] < 0 /\ w # v)
    ELSE IF IsInf(w) THEN w[2] > 0
    ELSE v[2] < w[2]


(***************************************************************************)
(* Python numbers and sympy expressions                                    *)
(***************************************************************************)
\* A Python number: an int (sympy Integer) or a float (sympy Float).
PyInt(n) == [ty |-> "int", val |-> FromInt(n)]
PyFloat(v) == [ty |-> "float", val |-> v]
NumTy(p, q) == IF p.ty = "float" \/ q.ty = "float" THEN "float" ELSE "int"
NumNeg(p) == [ty |-> p.ty, val |-> FNeg(p.val)]
NumMul(p, q) == [ty |-> NumTy(p, q), val |-> FMul(p.val, q.val)]
NumAdd(p, q) == [ty |-> NumTy(p, q), val |-> FAdd(p.val, q.val)]

\* Expression trees.  Every node has the same four fields: op is "x" (the
\* symbol x), "sym" (another symbol), "num", "add", "mul", "pow" or "none"
\* (no expression).
Node(o, n, v, as) == [op |-> o, name |-> n, val |-> v, args |-> as]
None == Node("none", "", Zero, <<>>)
x == Node("x", "x", Zero, <<>>)
Symbol(n) == Node("sym", n, Zero, <<>>)
Num(p) == Node("num", p.ty, p.val, <<>>)
Add(l, r) == Node("add", "", Zero, <<l, r>>)
Mul(l, r) == Node("mul", "", Zero, <<l, r>>)
Pow(l, r) == Node("pow", "", Zero, <<l, r>>)

IsNum(e) == e.op = "num"
AsNum(e) == [ty |-> e.name, val |-> e.val]
\* sympy keeps S.Zero and S.One out of sums and products; a Float zero is
\* turned into S.Zero by Float._new, a Float 1.0 is not S.One.
IsSZero(p) == p.val = Zero
IsSOne(p) == p.ty = "int" /\ p.val = One

\* Add(c, e), evaluated: e + c for a number c.
SymAddNum(c, e) ==
    IF IsSZero(c) THEN e
    ELSE IF IsNum(e) THEN Num(NumAdd(c, AsNum(e)))
    ELSE IF e.op = "add" /\ IsNum(e.args[1])
         THEN (IF IsSZero(NumAdd(c, AsNum(e.args[1])))
               THEN e.args[2]
               ELSE Add(Num(NumAdd(c, AsNum(e.args[1]))), e.args[2]))
    ELSE Add(Num(c), e)

\* Mul(c, e), evaluated: c * e for a number c.  Numeric coefficients are
\* collected; a Rational coefficient is distributed over a sum, a Float
\* coefficient is not.
RECURSIVE SymMulNum(_, _)
SymMulNum(c, e) ==
    IF IsSOne(c) THEN e
    ELSE IF IsNum(e) THEN Num(NumMul(c, AsNum(e)))
    ELSE IF e.op = "mul" /\ IsNum(e.args[1])
         THEN (IF IsSOne(NumMul(c, AsNum(e.args[1])))
               THEN e.args[2]
               ELSE Mul(Num(NumMul(c, AsNum(e.args[1]))), e.args[2]))
    ELSE IF e.op = "add" /\ c.ty = "int"
         THEN Add(SymMulNum(c, e.args[1]), SymMulNum(c, e.args[2]))
    ELSE Mul(Num(c), e)

\* e - p (Expr.__sub__), p * e (Expr.__rmul__) and -e (Expr.__neg__).
SymSub(e, p) == SymAddNum(NumNeg(p), e)
SymMul(p, e) == SymMulNum(p, e)
SymNeg(e) == SymMulNum(PyInt(-1), e)

\* expr.subs(x, t): every occurrence of the symbol x replaced by t.  The
\* tree is kept as substituted: the algebraic rewriting sympy does when it
\* rebuilds the nodes (such as (2*t)**2 to 4*t**2) keeps the function the
\* expression denotes and is left out.
RECURSIVE Subs(_, _)
Subs(e, t) ==
    IF e.op = "x" THEN t
    ELSE IF Len(e.args) = 0 THEN e
    ELSE Node(e.op, e.name, e.val, <<Subs(e.args[1], t), Subs(e.args[2], t)>>)

\* sp.Add where sp.Mul is meant.
MulWrittenAsAdd(c, e) == Add(Num(c), e)

\* sp.Mul(c, e, evaluate=False) and sp.Add(e, c, evaluate=False).
MulUnevaluated(c, e) == Mul(Num(c), e)
AddUnevaluated(e, c) == Add(e, Num(c))

\* The free symbols of e are among {x}; e mentions x.
RECURSIVE OnlyX(_)
OnlyX(e) ==
    IF e.op = "sym" THEN FALSE
    ELSE IF Len(e.args) = 0 THEN TRUE
    ELSE OnlyX(e.args[1]) /\ OnlyX(e.args[2])

RECURSIVE HasX(_)
HasX(e) ==
    IF e.op = "x" THEN TRUE
    ELSE IF Len(e.args) = 0 THEN FALSE
    ELSE HasX(e.args[1]) \/ HasX(e.args[2])

\* The value of the lambdified expression at the float xv.
RECURSIVE Eval(_, _)
Eval(e, xv) ==
    IF e.op = "x" THEN xv
    ELSE IF e.op = "num" THEN e.val
    ELSE IF e.op = "add" THEN FAdd(Eval(e.args[1], xv), Eval(e.args[2], xv))
    ELSE IF e.op = "mul" THEN FMul(Eval(e.args[1], xv), Eval(e.args[2], xv))
    ELSE IF e.op = "pow"
         THEN (IF e.args[2].val = Two
               THEN FMul(Eval(e.args[1], xv), Eval(e.args[1], xv))
               ELSE FDiv(One, Eval(e.args[1], xv)))
    ELSE NaN

(***************************************************************************)
(* Function input (lines 27-35)                                            *)
(***************************************************************************)
\* The texts a user types, and what sp.sympify makes of each; "x +" is not
\* an expression and raises SympifyError.
Texts == {"x**2", "x", "1/x", "x + 1", "4", "y", "x +"}
DefaultText == "x**2"

Sympify(text) ==
    CASE text = "x**2" -> [ok |-> TRUE, expr |-> Pow(x, Num(PyInt(2)))]
      [] text = "x" -> [ok |-> TRUE, expr |-> x]
      [] text = "1/x" -> [ok |-> TRUE, expr |-> Pow(x, Num(PyInt(-1)))]
      [] text = "x + 1" -> [ok |-> TRUE, expr |-> Add(Num(PyInt(1)), x)]
      [] text = "4" -> [ok |-> TRUE, expr |-> Num(PyInt(4))]
      [] text = "y" -> [ok |-> TRUE, expr |-> Symbol("y")]
      [] OTHER -> [ok |-> FALSE, expr |-> None]

(***************************************************************************)
(* Build transformed expression (lines 59-74)                              *)
(***************************************************************************)
\* c: the values of the ten controls of lines 42-56.
\* Lines 60-61, 62-63 and 64-65.
HShift(t, c) == IF c.apply_hshift THEN SymSub(t, c.h) ELSE t
HStretch(t, c) == IF c.apply_hstretch THEN SymMul(c.b, t) ELSE t
ReflectY(t, c) == IF c.apply_reflect_y THEN SymNeg(t) ELSE t

\* Lines 59-65 with the stretch applied before the shift.
InputExprStretchFirst(c) == ReflectY(HShift(HStretch(x, c), c), c)

\* Lines 59-65.
InputExpr(c) == ReflectY(HStretch(HShift(x, c), c), c)

\* Lines 69-70, 71-72 and 73-74.
VStretch(g, c) == IF c.apply_vstretch THEN MulUnevaluated(c.a, g) ELSE g
ReflectX(g, c) == IF c.apply_reflect_x THEN MulUnevaluated(PyInt(-1), g) ELSE g
VShift(g, c) == IF c.apply_vshift THEN AddUnevaluated(g, c.k) ELSE g

\* Lines 69-74 with the shift applied first.
VerticalShiftFirst(g, c) == ReflectX(VStretch(VShift(g, c), c), c)

\* Lines 69-74 without the test of apply_vshift.
VerticalUnguardedShift(g, c) == AddUnevaluated(ReflectX(VStretch(g, c), c), c.k)

\* Lines 69-74, applied to g = base_expr.subs(x, input_expr).
Vertical(g, c) == VShift(ReflectX(VStretch(g, c), c), c)

\* Lines 59-74.
TransformedExpr(base, c) == Vertical(Subs(base, InputExpr(c)), c)

(***************************************************************************)
(* Plotting section (lines 81-115)                                         *)
(***************************************************************************)
\* x_vals: the sample grid (np.linspace(-15, 15, 1000) in the program).
x_vals == <<FromInt(-2), Zero, FromInt(2), FromInt(3)>>

\* np.real(f(x_vals)) for f = sp.lambdify(x, e): one sample per grid point;
\* an expression without x lambdifies to a function returning a scalar.
Sample(e) ==
    IF HasX(e) THEN [i \in DOMAIN x_vals |-> Eval(e, x_vals[i])]
    ELSE <<Eval(e, Zero)>>

\* np.min and np.max of a non-empty sequence of finite numbers.
Lesser(v, w) == IF FLess(w, v) THEN w ELSE v
Greater(v, w) == IF FLess(v, w) THEN w ELSE v

RECURSIVE NpMin(_)
NpMin(s) == IF Len(s) = 1 THEN s[1] ELSE Lesser(s[1], NpMin(Tail(s)))

RECURSIVE NpMax(_)
NpMax(s) == IF Len(s) = 1 THEN s[1] ELSE Greater(s[1], NpMax(Tail(s)))

\* Lines 105-106.
FiniteY(yb, yt) == SelectSeq(yb \o yt, IsFinite)

\* Line 111.
Padded(ymin, ymax, padding) == <<FSub(ymin, padding), FAdd(ymax, padding)>>

\* Line 110 without the case ymax = ymin.
PaddingNoGuard(ymin, ymax) == FMul(FSub(ymax, ymin), Tenth)

\* Line 110.
Padding(ymin, ymax) ==
    IF ymax # ymin THEN FMul(FSub(ymax, ymin), Tenth) ELSE One

\* Lines 110-111.
Around(ymin, ymax) == Padded(ymin, ymax, Padding(ymin, ymax))

\* Lines 108-113.
Limits(finite_y) ==
    IF Len(finite_y) > 0
    THEN Around(NpMin(finite_y), NpMax(finite_y))
    ELSE <<FromInt(-20), FromInt(20)>>

\* Lines 105-113: the limits given to ax.set_ylim.
YLim(yb, yt) == Limits(FiniteY(yb, yt))

(***************************************************************************)
(* Challenge section (lines 118-150)                                       *)
(***************************************************************************)
\* The candidate values of lines 125-130.
ChoicesH == {PyInt(0), PyInt(2), PyInt(-3)}
ChoicesK == {PyInt(0), PyInt(3), PyInt(-2)}
ChoicesA == {PyInt(1), PyInt(2)}
ChoicesB == {PyInt(1), PyFloat(Half)}
Draws == [true_h : ChoicesH, true_k : ChoicesK, true_a : ChoicesA,
          true_b : ChoicesB, reflect_x : BOOLEAN, reflect_y : BOOLEAN]

\* st.session_state: keys is the set of the keys it holds; the field of a
\* key it does not hold is a placeholder.
AllKeys == {"challenge_generated", "true_h", "true_k", "true_a", "true_b",
            "reflect_x", "reflect_y"}
EmptySession ==
    [keys |-> {}, challenge_generated |-> FALSE,
     true_h |-> PyInt(0), true_k |-> PyInt(0), true_a |-> PyInt(1),
     true_b |-> PyInt(1), reflect_x |-> FALSE, reflect_y |-> FALSE]

\* Lines 124-130.
Generate(ss, d) ==
    [keys |-> AllKeys, challenge_generated |-> TRUE,
     true_h |-> d.true_h, true_k |-> d.true_k, true_a |-> d.true_a,
     true_b |-> d.true_b, reflect_x |-> d.reflect_x, reflect_y |-> d.reflect_y]

\* Lines 134-135, 136-137 and 138-139.
ChallengeHShift(t, ss) == IF ss.true_h.val # Zero THEN SymSub(t, ss.true_h) ELSE t
ChallengeHStretch(t, ss) == IF ss.true_b.val # One THEN SymMul(ss.true_b, t) ELSE t
ChallengeReflectY(t, ss) == IF ss.reflect_y THEN SymNeg(t) ELSE t

\* Lines 133-139 with the stretch applied before the shift.
ChallengeInputStretchFirst(ss) ==
    ChallengeReflectY(ChallengeHShift(ChallengeHStretch(x, ss), ss), ss)

\* Lines 133-139.
ChallengeInput(ss) ==
    ChallengeReflectY(ChallengeHStretch(ChallengeHShift(x, ss), ss), ss)

\* Lines 142-143, 144-145 and 146-147.
ChallengeVStretch(g, ss) ==
    IF ss.true_a.val # One THEN MulUnevaluated(ss.true_a, g) ELSE g
ChallengeReflectX(g, ss) ==
    IF ss.reflect_x THEN MulUnevaluated(PyInt(-1), g) ELSE g
ChallengeVShift(g, ss) ==
    IF ss.true_k.val # Zero THEN AddUnevaluated(g, ss.true_k) ELSE g

\* Lines 133-147.
ChallengeExpr(base, ss) ==
    ChallengeVShift(
        ChallengeReflectX(
            ChallengeVStretch(Subs(base, ChallengeInput(ss)), ss), ss), ss)

(***************************************************************************)
(* State                                                                   *)
(***************************************************************************)
VARIABLES
    user_input,         \* the text of the function input (line 28)
    apply_hshift, h, apply_hstretch, b, apply_reflect_y,    \* lines 42-48
    apply_vshift, k, apply_vstretch, a, apply_reflect_x,    \* lines 50-56
    base_expr,          \* line 32
    input_expr,         \* lines 59-65
    transformed_expr,   \* lines 67-74
    y_base, y_trans,    \* lines 87-88
    ylim,               \* lines 111, 113
    challenge_expr,     \* lines 141-147
    session_state,      \* st.session_state
    page,               \* what the last run of the script rendered
    event,              \* the interaction that caused the last run
    runs,               \* the number of runs of the script so far
    errors              \* the number of those that ended in an error

controlVars == <<apply_hshift, h, apply_hstretch, b, apply_reflect_y,
                 apply_vshift, k, apply_vstretch, a, apply_reflect_x>>
scriptVars == <<base_expr, input_expr, transformed_expr, y_base, y_trans,
                ylim, challenge_expr>>
vars == <<user_input, controlVars, scriptVars, session_state, page, event, runs, errors>>

Controls ==
    [apply_hshift |-> apply_hshift, h |-> h,
     apply_hstretch |-> apply_hstretch, b |-> b,
     apply_reflect_y |-> apply_reflect_y,
     apply_vshift |-> apply_vshift, k |-> k,
     apply_vstretch |-> apply_vstretch, a |-> a,
     apply_reflect_x |-> apply_reflect_x]

\* Values of the sliders of lines 43 and 51 (-10.0 to 10.0 in steps of 0.5)
\* and of lines 46 and 54 (0.1 to 5.0 in steps of 0.1).
ShiftSlider == {PyFloat(Zero), PyFloat(One), PyFloat(FromInt(3)), PyFloat(FromInt(-2))}
StretchSlider == {PyFloat(One), PyFloat(FromInt(2)), PyFloat(Half)}
ShiftOff == PyFloat(Zero)
StretchOff == PyFloat(One)

NoSeries == <<>>
NoLim == <<NaN, NaN>>

\* The controls as lines 42-56 can return them: a slider is read only when
\* its checkbox is ticked.
ControlsOk ==
    /\ apply_hshift \in BOOLEAN /\ apply_hstretch \in BOOLEAN
    /\ apply_reflect_y \in BOOLEAN /\ apply_vshift \in BOOLEAN
    /\ apply_vstretch \in BOOLEAN /\ apply_reflect_x \in BOOLEAN
    /\ h \in (IF apply_hshift THEN ShiftSlider ELSE {ShiftOff})
    /\ b \in (IF apply_hstretch THEN StretchSlider ELSE {StretchOff})
    /\ k \in (IF apply_vshift THEN ShiftSlider ELSE {ShiftOff})
    /\ a \in (IF apply_vstretch THEN StretchSlider ELSE {StretchOff})

(***************************************************************************)
(* The script, run once from top to bottom                                 *)
(***************************************************************************)
\* An element of the rendered page: st.text_input, st.error, the controls of
\* lines 40-56, st.latex, st.pyplot, st.button, st.info, or the traceback
\* Streamlit shows for an exception the script does not catch.
Elem(kind, e, lim) == [kind |-> kind, expr |-> e, ylim |-> lim]
Kinds(pg) == {pg[i].kind : i \in DOMAIN pg}

\* The state of a run: the page so far, the script's variables, the session
\* state, and whether the run has ended (st.stop() or an exception).
StartRun(ss) ==
    [stopped |-> FALSE, page |-> <<>>,
     base_expr |-> None, input_expr |-> None, transformed_expr |-> None,
     y_base |-> NoSeries, y_trans |-> NoSeries, ylim |-> NoLim,
     challenge_expr |-> None, session_state |-> ss]

Shown(r, kind) == [r EXCEPT !.page = Append(@, Elem(kind, None, NoLim))]
Stopped(r, kind) ==
    [r EXCEPT !.page = Append(@, Elem(kind, None, NoLim)), !.stopped = TRUE]

\* Lines 27-35 without the st.stop() of line 35.
FunctionInputNoStop(r, text) ==
    IF Sympify(text).ok
    THEN [Shown(r, "text_input") EXCEPT !.base_expr = Sympify(text).expr]
    ELSE Shown(Shown(r, "text_input"), "error_invalid")

\* Lines 27-35.
FunctionInput(r, text) ==
    IF Sympify(text).ok
    THEN [Shown(r, "text_input") EXCEPT !.base_expr = Sympify(text).expr]
    ELSE Stopped(Shown(r, "text_input"), "error_invalid")

\* Lines 67-78, for the input_expr t of lines 59-65.
Display(r, t, g) ==
    [Shown(r, "controls") EXCEPT
        !.input_expr = t, !.transformed_expr = g,
        !.page = Append(@, Elem("latex", g, NoLim))]

\* Lines 38-78.
BuildSection(r, c) ==
    IF r.stopped THEN r
    ELSE Display(r, InputExpr(c), TransformedExpr(r.base_expr, c))

\* Lines 93-115: ax.plot raises ValueError, which nothing catches, when a
\* series has not the length of x_vals (line 94).
Chart(r, lim) ==
    [r EXCEPT !.ylim = lim, !.page = Append(@, Elem("pyplot", None, lim))]
Plot(r, yb, yt) ==
    IF Len(yb) # Len(x_vals) \/ Len(yt) # Len(x_vals)
    THEN Stopped([r EXCEPT !.y_base = yb, !.y_trans = yt], "exception")
    ELSE Chart([r EXCEPT !.y_base = yb, !.y_trans = yt], YLim(yb, yt))

\* Lines 81-115 refusing to plot once the page has shown an error.
PlottingSectionLatched(r) ==
    IF r.stopped THEN r
    ELSE IF ~OnlyX(r.base_expr) \/ ~OnlyX(r.transformed_expr)
            \/ "error_invalid" \in Kinds(page) \/ "error_eval" \in Kinds(page)
    THEN Stopped(r, "error_eval")
    ELSE Plot(r, Sample(r.base_expr), Sample(r.transformed_expr))

\* Lines 81-115.  Calling the lambdified function fails (NameError) when the
\* expression has a symbol other than x: lines 89-91.
PlottingSection(r) ==
    IF r.stopped THEN r
    ELSE IF ~OnlyX(r.base_expr) \/ ~OnlyX(r.transformed_expr)
    THEN Stopped(r, "error_eval")
    ELSE Plot(r, Sample(r.base_expr), Sample(r.transformed_expr))

\* Lines 132-150.
Mystery(r, e) ==
    [Shown(r, "info") EXCEPT
        !.challenge_expr = e,
        !.page = Append(r.page, Elem("latex_challenge", e, NoLim))
                    \o <<Elem("info", None, NoLim)>>]
ShowChallenge(r, ss) ==
    IF ss.challenge_generated
    THEN Mystery([Shown(r, "button") EXCEPT !.session_state = ss],
                 ChallengeExpr(r.base_expr, ss))
    ELSE [Shown(r, "button") EXCEPT !.session_state = ss]

\* Lines 120-121 setting the flag to False on every run.
InitFlagAlways(ss) ==
    [ss EXCEPT !.keys = @ \cup {"challenge_generated"},
               !.challenge_generated = FALSE]

\* Lines 120-121.
InitFlag(ss) ==
    IF "challenge_generated" \in ss.keys THEN ss
    ELSE [ss EXCEPT !.keys = @ \cup {"challenge_generated"},
                    !.challenge_generated = FALSE]

\* Lines 118-150; clicked is what st.button returns, d the values
\* random.choice returns.
ChallengeSection(r, clicked, d) ==
    IF r.stopped THEN r
    ELSE ShowChallenge(r, IF clicked
                          THEN Generate(InitFlag(r.session_state), d)
                          ELSE InitFlag(r.session_state))

\* Lines 26-150.
Script(text, c, clicked, d, ss) ==
    LET s1 == {FunctionInput(StartRun(ss), text)}
        s2 == {BuildSection(r, c) : r \in s1}
        s3 == {PlottingSection(r) : r \in s2}
        s4 == {ChallengeSection(r, clicked, d) : r \in s3}
    IN  CHOOSE r \in s4 : TRUE

(***************************************************************************)
(* The Transformation Composer on its own: every base expression with      *)
(* every setting of the controls.                                          *)
(***************************************************************************)
Parseable == {t \in Texts : Sympify(t).ok}

InitCompose ==
    /\ user_input \in Parseable
    /\ ControlsOk
    /\ base_expr = Sympify(user_input).expr
    /\ input_expr = None /\ transformed_expr = None
    /\ y_base = NoSeries /\ y_trans = NoSeries /\ ylim = NoLim
    /\ challenge_expr = None
    /\ session_state = EmptySession
    /\ page = <<>> /\ event = "none" /\ runs = 0 /\ errors = 0

\* Lines 59-65.
BuildInput ==
    /\ input_expr = None
    /\ input_expr' = InputExpr(Controls)
    /\ UNCHANGED <<user_input, controlVars, base_expr, transformed_expr,
                   y_base, y_trans, ylim, challenge_expr, session_state, page, event, runs, errors>>

\* Lines 67-74.
BuildTransformed ==
    /\ input_expr # None /\ transformed_expr = None
    /\ transformed_expr' = Vertical(Subs(base_expr, input_expr), Controls)
    /\ UNCHANGED <<user_input, controlVars, base_expr, input_expr,
                   y_base, y_trans, ylim, challenge_expr, session_state, page, event, runs, errors>>

NextCompose == BuildInput \/ BuildTransformed

SpecCompose == InitCompose /\ [][NextCompose]_vars

(***************************************************************************)
(* Properties of the Transformation Composer (under SpecCompose)           *)
(***************************************************************************)
GridPoints == {x_vals[i] : i \in DOMAIN x_vals}

\* The argument the transformations prescribe at xv: shift, then stretch,
\* then reflect-Y.
ArgumentAt(c, xv) ==
    LET t1 == IF c.apply_hshift THEN FSub(xv, c.h.val) ELSE xv
        t2 == IF c.apply_hstretch THEN FMul(c.b.val, t1) ELSE t1
    IN  IF c.apply_reflect_y THEN FNeg(t2) ELSE t2

\* The output the transformations prescribe for the value g of f(t):
\* stretch, then reflect-X, then shift.
OutputAt(c, g) ==
    LET g1 == IF c.apply_vstretch THEN FMul(c.a.val, g) ELSE g
        g2 == IF c.apply_reflect_x THEN FNeg(g1) ELSE g1
    IN  IF c.apply_vshift THEN FAdd(g2, c.k.val) ELSE g2

NoVertical == ~apply_vstretch /\ ~apply_reflect_x /\ ~apply_vshift
NoHorizontal == ~apply_hshift /\ ~apply_hstretch /\ ~apply_reflect_y

\* C1: at every grid point the argument built by the Composer has the
\* value x, minus h if the shift is enabled, then times b if the stretch is
\* enabled, then negated if reflect-Y is enabled; and what is substituted
\* into f is that argument: with no vertical transformation the output at
\* x is f at that argument.
C1_HorizontalOrder ==
    /\ input_expr # None =>
         \A xv \in GridPoints : Eval(input_expr, xv) = ArgumentAt(Controls, xv)
    /\ (transformed_expr # None /\ NoVertical) =>
         \A xv \in GridPoints :
            Eval(transformed_expr, xv) = Eval(base_expr, ArgumentAt(Controls, xv))

\* C1's case: f(x) = x with h = 1 and b = 2 enabled gives 4 at x = 3.
C1_Witness ==
    /\ base_expr = x /\ transformed_expr # None
    /\ apply_hshift /\ h.val = One /\ apply_hstretch /\ b.val = FromInt(2)
    /\ ~apply_reflect_y /\ NoVertical
    /\ Eval(transformed_expr, FromInt(3)) = FromInt(4)

\* C2: at every grid point the output is the value of g = f(t), times a if
\* the vertical stretch is enabled, then negated if reflect-X is enabled,
\* then plus k if the vertical shift is enabled.
C2_VerticalOrder ==
    transformed_expr # None =>
        \A xv \in GridPoints :
            Eval(transformed_expr, xv)
                = OutputAt(Controls, Eval(Subs(base_expr, input_expr), xv))

\* C2's case: f(x) = x**2 with a = 2, reflect-X and k = 3 gives 3 at x = 0
\* and -5 at x = 2.
C2_Witness ==
    /\ base_expr = Pow(x, Num(PyInt(2))) /\ transformed_expr # None
    /\ NoHorizontal
    /\ apply_vstretch /\ a.val = FromInt(2) /\ apply_reflect_x
    /\ apply_vshift /\ k.val = FromInt(3)
    /\ Eval(transformed_expr, Zero) = FromInt(3)
    /\ Eval(transformed_expr, FromInt(2)) = FromInt(-5)

\* C3: with all six enable flags false the output is the base expression.
C3_Identity ==
    (transformed_expr # None /\ NoHorizontal /\ NoVertical) =>
        transformed_expr = base_expr

C3_Witness ==
    /\ transformed_expr # None /\ NoHorizontal /\ NoVertical
    /\ HasX(base_expr) /\ base_expr # x

\* The controls with one of the stretches switched off.
WithoutVStretch(c) == [c EXCEPT !.apply_vstretch = FALSE, !.a = StretchOff]
WithoutHStretch(c) == [c EXCEPT !.apply_hstretch = FALSE, !.b = StretchOff]

NSamples == 2
SampleValues == {NaN, PInf, NInf, Zero, FromInt(4), FromInt(5), FromInt(128)}
Series == [1 .. NSamples -> SampleValues]

ControlsOff ==
    /\ apply_hshift = FALSE /\ h = ShiftOff
    /\ apply_hstretch = FALSE /\ b = StretchOff
    /\ apply_reflect_y = FALSE
    /\ apply_vshift = FALSE /\ k = ShiftOff
    /\ apply_vstretch = FALSE /\ a = StretchOff
    /\ apply_reflect_x = FALSE

InitRange ==
    /\ user_input = DefaultText
    /\ ControlsOff
    /\ base_expr = None /\ input_expr = None /\ transformed_expr = None
    /\ y_base \in Series /\ y_trans \in Series
    /\ ylim = NoLim
    /\ challenge_expr = None
    /\ session_state = EmptySession
    /\ page = <<>> /\ event = "none" /\ runs = 0 /\ errors = 0

\* Lines 105-113.
SetYLim ==
    /\ ylim = NoLim
    /\ ylim' = YLim(y_base, y_trans)
    /\ UNCHANGED <<user_input, controlVars, base_expr, input_expr,
                   transformed_expr, y_base, y_trans, challenge_expr,
                   session_state, page, event, runs, errors>>

NextRange == SetYLim

SpecRange == InitRange /\ [][NextRange]_vars

\* The finite samples of the two series together, as a set.
FiniteSamples ==
    {v \in {y_base[i] : i \in DOMAIN y_base} \cup {y_trans[i] : i \in DOMAIN y_trans} :
        IsFinite(v)}
Least(S) == CHOOSE v \in S : \A w \in S : ~FLess(w, v)
Greatest(S) == CHOOSE v \in S : \A w \in S : ~FLess(v, w)

\* C5: the range is (-20, 20) when no sample is finite; otherwise it is
\* (ymin - padding, ymax + padding) for the least and greatest finite
\* sample ymin and ymax of both series, padding being (ymax - ymin) * 0.1
\* when they differ and 1 when they are equal.
C5_RangeFromFiniteSamples ==
    ylim # NoLim =>
        IF FiniteSamples = {}
        THEN ylim = <<FromInt(-20), FromInt(20)>>
        ELSE LET ymin == Least(FiniteSamples)
                 ymax == Greatest(FiniteSamples)
                 padding == IF ymax = ymin THEN One
                            ELSE FMul(FSub(ymax, ymin), Tenth)
             IN  ylim = <<FSub(ymin, padding), FAdd(ymax, padding)>>

\* C5's cases: finite samples 0 and 5 among NaN and infinity give
\* (-0.5, 5.5).
C5_Witness ==
    /\ FiniteSamples = {Zero, FromInt(5)}
    /\ \E i \in DOMAIN y_base : IsNaN(y_base[i])
    /\ \E i \in DOMAIN y_trans : y_trans[i] = PInf
    /\ ylim = <<FNeg(Half), FAdd(FromInt(5), Half)>>

\* Both series constant at 4 give (3, 5).
C5_WitnessConstant ==
    /\ FiniteSamples = {FromInt(4)}
    /\ ylim = <<FromInt(3), FromInt(5)>>

\* No finite sample gives (-20, 20).
C5_WitnessFallback ==
    /\ FiniteSamples = {} /\ ylim = <<FromInt(-20), FromInt(20)>>

\* C10: the lower limit is below the upper limit, and every finite sample
\* lies strictly between them.
C10_ProperRange ==
    ylim # NoLim =>
        /\ FLess(ylim[1], ylim[2])
        /\ \A v \in FiniteSamples : FLess(ylim[1], v) /\ FLess(v, ylim[2])

(***************************************************************************)
(* The challenge on its own: every base expression with every draw.        *)
(***************************************************************************)
InitChallenge ==
    /\ user_input \in Parseable
    /\ ControlsOff
    /\ base_expr = Sympify(user_input).expr
    /\ input_expr = None /\ transformed_expr = None
    /\ y_base = NoSeries /\ y_trans = NoSeries /\ ylim = NoLim
    /\ challenge_expr = None
    /\ session_state = InitFlag(EmptySession)
    /\ page = <<>> /\ event = "none" /\ runs = 0 /\ errors = 0

\* Lines 124-130.
DrawChallenge ==
    /\ ~session_state.challenge_generated
    /\ \E d \in Draws : session_state' = Generate(session_state, d)
    /\ UNCHANGED <<user_input, controlVars, scriptVars, page, event, runs, errors>>

\* Lines 132-147.
BuildChallenge ==
    /\ session_state.challenge_generated /\ challenge_expr = None
    /\ challenge_expr' = ChallengeExpr(base_expr, session_state)
    /\ UNCHANGED <<user_input, controlVars, base_expr, input_expr,
                   transformed_expr, y_base, y_trans, ylim, session_state,
                   page, event, runs, errors>>

NextChallenge == DrawChallenge \/ BuildChallenge

SpecChallenge == InitChallenge /\ [][NextChallenge]_vars

\* The controls that enable all six transformations with the drawn values.
AllEnabled(ss) ==
    [apply_hshift |-> TRUE, h |-> ss.true_h,
     apply_hstretch |-> TRUE, b |-> ss.true_b,
     apply_reflect_y |-> ss.reflect_y,
     apply_vshift |-> TRUE, k |-> ss.true_k,
     apply_vstretch |-> TRUE, a |-> ss.true_a,
     apply_reflect_x |-> ss.reflect_x]

\* The controls that enable a transformation when its drawn value is not
\* the identity value.
NonIdentityEnabled(ss) ==
    [apply_hshift |-> ss.true_h.val # Zero, h |-> ss.true_h,
     apply_hstretch |-> ss.true_b.val # One, b |-> ss.true_b,
     apply_reflect_y |-> ss.reflect_y,
     apply_vshift |-> ss.true_k.val # Zero, k |-> ss.true_k,
     apply_vstretch |-> ss.true_a.val # One, a |-> ss.true_a,
     apply_reflect_x |-> ss.reflect_x]

\* C7 as claimed: the mystery expression is the Composer's output with all
\* six transformations enabled and the drawn values.
C7_AllEnabled ==
    challenge_expr # None =>
        challenge_expr = TransformedExpr(base_expr, AllEnabled(session_state))

\* C7 as amended: the mystery expression is the Composer's output with the
\* drawn values, each transformation being enabled when its drawn value is
\* not the identity value (h # 0, b # 1, a # 1, k # 0, the reflections when
\* drawn true).
C7_NonIdentityEnabled ==
    challenge_expr # None =>
        challenge_expr = TransformedExpr(base_expr, NonIdentityEnabled(session_state))

\* A challenge with a shift, a stretch and a reflection drawn, and with
\* a = 1 and k = 0: the mystery expression shows no factor 1 and no term 0.
C7_Witness ==
    /\ challenge_expr # None /\ HasX(base_expr)
    /\ session_state.true_h.val = FromInt(2) /\ session_state.true_b.val = Half
    /\ session_state.reflect_y /\ session_state.reflect_x
    /\ session_state.true_a.val = One /\ session_state.true_k.val = Zero
    /\ challenge_expr # TransformedExpr(base_expr, AllEnabled(session_state))

(***************************************************************************)
(* A session: the page is loaded, then the user changes the text, ticks a  *)
(* checkbox, moves a slider or presses the button; each interaction runs   *)
(* the script with the widgets' values.                                    *)
(***************************************************************************)
MaxRuns == 3

DefaultControls ==
    [apply_hshift |-> FALSE, h |-> ShiftOff,
     apply_hstretch |-> FALSE, b |-> StretchOff,
     apply_reflect_y |-> FALSE,
     apply_vshift |-> FALSE, k |-> ShiftOff,
     apply_vstretch |-> FALSE, a |-> StretchOff,
     apply_reflect_x |-> FALSE]

AnyDraw == CHOOSE d \in Draws : TRUE

Init ==
    /\ user_input = DefaultText
    /\ ControlsOff
    /\ base_expr = None /\ input_expr = None /\ transformed_expr = None
    /\ y_base = NoSeries /\ y_trans = NoSeries /\ ylim = NoLim
    /\ challenge_expr = None
    /\ session_state = EmptySession
    /\ page = <<>> /\ event = "none" /\ runs = 0 /\ errors = 0

\* One run of the script caused by the interaction ev, with text in the
\* function input and c the values of the controls.
Rerun(ev, text, c, clicked, d) ==
    /\ runs < MaxRuns
    /\ \E r \in {Script(text, c, clicked, d, session_state)} :
        /\ runs' = runs + 1
        /\ errors' = IF r.stopped THEN errors + 1 ELSE errors
        /\ event' = ev
        /\ user_input' = text
        /\ apply_hshift' = c.apply_hshift /\ h' = c.h
        /\ apply_hstretch' = c.apply_hstretch /\ b' = c.b
        /\ apply_reflect_y' = c.apply_reflect_y
        /\ apply_vshift' = c.apply_vshift /\ k' = c.k
        /\ apply_vstretch' = c.apply_vstretch /\ a' = c.a
        /\ apply_reflect_x' = c.apply_reflect_x
        /\ base_expr' = r.base_expr
        /\ input_expr' = r.input_expr
        /\ transformed_expr' = r.transformed_expr
        /\ y_base' = r.y_base /\ y_trans' = r.y_trans /\ ylim' = r.ylim
        /\ challenge_expr' = r.challenge_expr
        /\ session_state' = r.session_state
        /\ page' = r.page

PageLoad ==
    /\ runs = 0
    /\ Rerun("load", DefaultText, DefaultControls, FALSE, AnyDraw)

TextChange ==
    /\ runs > 0
    /\ \E t \in Texts \ {user_input} : Rerun("text", t, Controls, FALSE, AnyDraw)

\* The controls after the checkbox box is clicked; a slider that is not
\* shown gives its identity value, a slider newly shown its default.
Toggled(c, box) ==
    CASE box = "hshift" -> [c EXCEPT !.apply_hshift = ~@, !.h = ShiftOff]
      [] box = "hstretch" -> [c EXCEPT !.apply_hstretch = ~@, !.b = StretchOff]
      [] box = "reflect_y" -> [c EXCEPT !.apply_reflect_y = ~@]
      [] box = "vshift" -> [c EXCEPT !.apply_vshift = ~@, !.k = ShiftOff]
      [] box = "vstretch" -> [c EXCEPT !.apply_vstretch = ~@, !.a = StretchOff]
      [] box = "reflect_x" -> [c EXCEPT !.apply_reflect_x = ~@]
Checkboxes == {"hshift", "hstretch", "reflect_y", "vshift", "vstretch", "reflect_x"}

CheckboxChange ==
    /\ "controls" \in Kinds(page)
    /\ \E box \in Checkboxes :
          Rerun("checkbox", user_input, Toggled(Controls, box), FALSE, AnyDraw)

SliderChange ==
    /\ "controls" \in Kinds(page)
    /\ \/ \E v \in ShiftSlider \ {h} :
             apply_hshift /\ Rerun("slider", user_input, [Controls EXCEPT !.h = v], FALSE, AnyDraw)
       \/ \E v \in StretchSlider \ {b} :
             apply_hstretch /\ Rerun("slider", user_input, [Controls EXCEPT !.b = v], FALSE, AnyDraw)
       \/ \E v \in ShiftSlider \ {k} :
             apply_vshift /\ Rerun("slider", user_input, [Controls EXCEPT !.k = v], FALSE, AnyDraw)
       \/ \E v \in StretchSlider \ {a} :
             apply_vstretch /\ Rerun("slider", user_input, [Controls EXCEPT !.a = v], FALSE, AnyDraw)

GenerateChallenge ==
    /\ "button" \in Kinds(page)
    /\ \E d \in Draws : Rerun("button", user_input, Controls, TRUE, d)

Next == PageLoad \/ TextChange \/ CheckboxChange \/ SliderChange \/ GenerateChallenge

Spec == Init /\ [][Next]_vars

(***************************************************************************)
(* Properties of a session (under Spec)                                    *)
(***************************************************************************)
Last(pg) == pg[Len(pg)]
ParseFails == ~Sympify(user_input).ok
SamplingFails == Sympify(user_input).ok /\ ~OnlyX(Sympify(user_input).expr)
AfterTheChart == {"button", "latex_challenge", "info"}

\* C6: when parsing the text fails the page ends with the error message,
\* no transformed expression is composed or displayed, and there is no
\* chart and no later section; when sampling fails the page ends with the
\* error message, and there is no chart and no later section.
C6_ErrorsHalt ==
    runs > 0 =>
        /\ ParseFails =>
              /\ Last(page).kind = "error_invalid"
              /\ transformed_expr = None
              /\ Kinds(page) \cap ({"controls", "latex", "pyplot"} \cup AfterTheChart) = {}
        /\ SamplingFails =>
              /\ Last(page).kind = "error_eval"
              /\ y_base = NoSeries /\ y_trans = NoSeries /\ ylim = NoLim
              /\ Kinds(page) \cap ({"pyplot"} \cup AfterTheChart) = {}
        /\ \A i \in DOMAIN page :
              page[i].kind \in {"error_invalid", "error_eval"} => i = Len(page)

\* A parse error in a session that holds a generated challenge: the page
\* ends with the message and shows no mystery expression.
C6_Witness ==
    /\ ParseFails /\ Last(page).kind = "error_invalid"
    /\ session_state.challenge_generated

\* The challenge record; a flag the session state does not hold reads as
\* false.
Record(ss) ==
    [generated |-> "challenge_generated" \in ss.keys /\ ss.challenge_generated,
     h |-> ss.true_h, k |-> ss.true_k, a |-> ss.true_a, b |-> ss.true_b,
     reflect_x |-> ss.reflect_x, reflect_y |-> ss.reflect_y]

\* C8: a run that is not caused by the button leaves the challenge record
\* unchanged, and the generated flag never returns to false.
C8_RecordHeld ==
    [][/\ event' # "button" => Record(session_state') = Record(session_state)
       /\ Record(session_state).generated => Record(session_state').generated]_vars

\* A generated challenge that has been through a run ending in an error.
C8_Witness ==
    /\ event = "text" /\ errors > 0 /\ Last(page).kind = "error_invalid"
    /\ session_state.challenge_generated
    /\ session_state.true_h.val # Zero /\ session_state.reflect_x

Plottable(e) == OnlyX(e) /\ HasX(e)

\* C9: whatever happened before, a run with a valid text gives the
\* transformed expression, the sample series and the y-range that the text
\* and the controls determine, and the mystery expression that the base
\* expression and the held challenge record determine.
C9_OutputsFromInputs ==
    (runs > 0 /\ ~ParseFails) =>
        /\ base_expr = Sympify(user_input).expr
        /\ input_expr = InputExpr(Controls)
        /\ transformed_expr = TransformedExpr(Sympify(user_input).expr, Controls)
        /\ Last(page).kind = "error_eval" <=> SamplingFails
        /\ Plottable(base_expr) =>
              /\ y_base = Sample(base_expr)
              /\ y_trans = Sample(transformed_expr)
              /\ ylim = YLim(y_base, y_trans)
              /\ \E i \in DOMAIN page :
                    page[i].kind = "pyplot" /\ page[i].ylim = ylim
              /\ challenge_expr =
                    IF session_state.challenge_generated
                    THEN ChallengeExpr(base_expr, session_state)
                    ELSE None

\* A chart shown after an earlier run ended in an error.
C9_Witness ==
    /\ errors > 0 /\ "pyplot" \in Kinds(page) /\ ylim # NoLim

=============================================================================
